---------------------------- MODULE Spec2Model ----------------------------
(***************************************************************************)
(* A model of the UDF I/O decorators of eva (setup, forward), of the array *)
(* and dataframe descriptors they use, and of the command-line client's    *)
(* request queue.                                                          *)
(***************************************************************************)
EXTENDS Integers, Sequences, FiniteSets, TLC

VARIABLES
    \* ---- array descriptors (data_types.py) ----
    arr_self,        \* the NumpyArray / PyTorchTensor descriptor under test
    arr_input,       \* the object last handed to check_array_and_convert_type
    arr_result,      \* what that call returned or raised
    arr_pc,          \* "ready" | "called"
    \* ---- PandasDataframe (data_types.py) ----
    df_pc,           \* "none" | "constructed" | "generated"
    df_args,         \* the arguments __init__ was called with
    df_init_result,  \* what __init__ returned or raised
    df_self,         \* the descriptor object's fields
    df_is_input,     \* the argument of the last generate_catalog_entries
    df_result,       \* what the last generate_catalog_entries returned or raised
    \* ---- setup decorator (decorators.py) ----
    setup_fn,        \* the user's setup function that was wrapped
    setup_tags,      \* wrapper.tags
    setup_pc,        \* "wrapped" | "returned"
    setup_call,      \* the arguments of the last call of the wrapper
    setup_invoked,   \* the calls of arg_fn made during that call
    setup_fn_ret,    \* what arg_fn returned during that call
    setup_ret,       \* what the wrapper returned
    \* ---- forward decorator (decorators.py) ----
    input_signatures,   \* the closure's list of input descriptors
    output_signatures,  \* the closure's list of output descriptors
    check_input,
    check_output,
    arg_fn,          \* the user's forward function that was wrapped
    fwd_tags,        \* wrapper.tags
    fwd_wrapped,     \* the tags and the descriptor lists as they were at wrap time
    fw,              \* per worker: the frame of its call of the wrapper
    \* ---- command-line client (interpreter.py) ----
    cli_stdin,       \* every character the user enters, in order
    cli_pos,         \* how many of them stdin_reader.read has handed out
    cli_pc,          \* the input loop: "start" | "read" | "got_line" | "returned"
    input_buffer,    \* read_line's deque of the chunks read so far
    cli_message,     \* what read_line returned last
    c_request_queue, \* the asyncio.Queue between the two tasks
    req_pc,          \* handle_client_requests: "none" | "get" | "executing" | "closed"
    executed         \* the queries passed to cursor.execute_async, in order

arrVars == <<arr_self, arr_input, arr_result, arr_pc>>
dfVars == <<df_pc, df_args, df_init_result, df_self, df_is_input, df_result>>
setupVars == <<setup_fn, setup_tags, setup_pc, setup_call, setup_invoked,
               setup_fn_ret, setup_ret>>

fwdConf == <<input_signatures, output_signatures, check_input, check_output,
             arg_fn, fwd_tags, fwd_wrapped>>
fwdVars == <<fwdConf, fw>>

cliVars == <<cli_stdin, cli_pos, cli_pc, input_buffer, cli_message,
             c_request_queue, req_pc, executed>>

vars == <<arrVars, dfVars, setupVars, fwdVars, cliVars>>

-----------------------------------------------------------------------------
(* Bounds of the model. *)

\* Longest flat data sequence of an array value the model enumerates.
MaxData == 2

-----------------------------------------------------------------------------
(* Python objects.  Every object is a record of the same five fields so     *)
(* that any two objects can be compared.                                    *)
(*   rep   : "ndarray" | "tensor" | "list" | "pyscalar" | "npscalar" |      *)
(*           "tuple" | "self" | "None"                                      *)
(*   dtype : the element type of an array ("int8" .. "float64"),            *)
(*           "pyint" for a list of Python ints                              *)
(*   shape : the dimensions of an array                                     *)
(*   data  : the elements, flattened in row-major order (integer valued)    *)
(*   items : the members of a tuple                                         *)

Arr(rep, dtype, shape, data) ==
    [rep |-> rep, dtype |-> dtype, shape |-> shape, data |-> data, items |-> <<>>]

PyTuple(items) ==
    [rep |-> "tuple", dtype |-> "", shape |-> <<>>, data |-> <<>>, items |-> items]

PyList(data) == Arr("list", "pyint", <<Len(data)>>, data)

NoneObj == Arr("None", "", <<>>, <<>>)

\* The receiver (`self`) of a UDF's forward method: an opaque object.
SelfObj == Arr("self", "", <<>>, <<>>)

\* The outcome of a call: a returned object or a raised exception.
Return(v) == [ok |-> TRUE, exc |-> "", val |-> v]
Raise(e) == [ok |-> FALSE, exc |-> e, val |-> NoneObj]

\* Members of the two enumerations of eva.catalog.catalog_type.  A member of
\* one enumeration never equals a member of the other.
NdArrayType(n) == [enum |-> "NdArrayType", name |-> n]
ColumnType(n) == [enum |-> "ColumnType", name |-> n]
PyNone == [enum |-> "NoneType", name |-> "None"]

ConcreteTypeNames == {"INT8", "INT16", "INT32", "INT64", "FLOAT32", "FLOAT64"}

RECURSIVE Product(_)
Product(s) == IF s = <<>> THEN 1 ELSE Head(s) * Product(Tail(s))

\* Two's-complement wrap of an integer to w bits, as astype / Tensor.to do
\* when they narrow an integer.
WrapInt(x, w) == ((x + 2 ^ (w - 1)) % (2 ^ w)) - 2 ^ (w - 1)

\* A cast to int32 or int64 wraps at 32 or 64 bits; every element of the
\* model lies far inside both ranges, where the wrap leaves it unchanged.  A
\* cast to a float type keeps the (integer valued) element.
CastElem(x, dtype) ==
    CASE dtype = "int8" -> WrapInt(x, 8)
      [] dtype = "int16" -> WrapInt(x, 16)
      [] OTHER -> x

\* ndarray.astype(dtype) and Tensor.to(dtype): a new array of the same
\* representation and shape whose elements are cast.
astype(obj, dtype) ==
    Arr(obj.rep, dtype, obj.shape, [k \in 1..Len(obj.data) |-> CastElem(obj.data[k], dtype)])

\* np.asarray(list): a list of Python ints becomes an int64 array.
np_asarray(obj) == Arr("ndarray", "int64", obj.shape, obj.data)

\* Tensor.numpy(): the same elements as an ndarray.
tensor_numpy(obj) == Arr("ndarray", obj.dtype, obj.shape, obj.data)

\* torch.Tensor(list): always a float32 tensor.
torch_Tensor(obj) == Arr("tensor", "float32", obj.shape, obj.data)

\* torch.from_numpy(ndarray): the same elements as a tensor.
torch_from_numpy(obj) == Arr("tensor", obj.dtype, obj.shape, obj.data)

-----------------------------------------------------------------------------
(* The column descriptors.  IOColumnArgument.__init__ stores its arguments  *)
(* as fields; both subclasses pass type = ColumnType.NDARRAY.               *)

IOColumnArgument(backend, name, is_nullable, type, array_type, array_dimensions) ==
    [backend |-> backend, name |-> name, is_nullable |-> is_nullable,
     type |-> type, array_type |-> array_type,
     array_dimensions |-> array_dimensions]

NumpyArray(name, is_nullable, type, dimensions) ==
    IOColumnArgument("numpy", name, is_nullable, ColumnType("NDARRAY"), type, dimensions)

PyTorchTensor(name, is_nullable, type, dimensions) ==
    IOColumnArgument("torch", name, is_nullable, ColumnType("NDARRAY"), type, dimensions)

\* The cast chain shared in shape by both backends: note that the INT16
\* branch tests self.type, the column type, and not self.array_type.
CastChain(self, input_object) ==
    IF self.array_type = NdArrayType("INT8") THEN Return(astype(input_object, "int8"))
    ELSE IF self.type = NdArrayType("INT16") THEN Return(astype(input_object, "int16"))
    ELSE IF self.array_type = NdArrayType("INT32") THEN Return(astype(input_object, "int32"))
    ELSE IF self.array_type = NdArrayType("INT64") THEN Return(astype(input_object, "int64"))
    ELSE IF self.array_type = NdArrayType("FLOAT32") THEN Return(astype(input_object, "float32"))
    ELSE IF self.array_type = NdArrayType("FLOAT64") THEN Return(astype(input_object, "float64"))
    ELSE Raise("UDFIODefinitionError")

NumpyArray_check_array_and_convert_type(self, input_object) ==
    IF input_object.rep # "ndarray"
    THEN IF input_object.rep = "list"
         THEN CastChain(self, np_asarray(input_object))
         ELSE IF input_object.rep = "tensor"
         THEN CastChain(self, tensor_numpy(input_object))
         ELSE Raise("UDFIODefinitionError")
    ELSE CastChain(self, input_object)

PyTorchTensor_check_array_and_convert_type(self, input_object) ==
    IF input_object.rep # "tensor"
    THEN IF input_object.rep = "list"
         THEN CastChain(self, torch_Tensor(input_object))
         ELSE IF input_object.rep = "ndarray"
         THEN CastChain(self, torch_from_numpy(input_object))
         ELSE Raise("UDFIODefinitionError")
    ELSE CastChain(self, input_object)

check_array_and_convert_type(self, input_object) ==
    IF self.backend = "numpy"
    THEN NumpyArray_check_array_and_convert_type(self, input_object)
    ELSE PyTorchTensor_check_array_and_convert_type(self, input_object)

\* np.reshape(obj, dims): an ndarray or a list is reshaped into an ndarray,
\* a tensor through its own reshape method; any failure is wrapped.
NumpyArray_check_array_and_convert_shape(self, input_object) ==
    IF input_object.rep \in {"ndarray", "list", "tensor"}
       /\ Product(self.array_dimensions) = Len(input_object.data)
    THEN Return(Arr(IF input_object.rep = "tensor" THEN "tensor" ELSE "ndarray",
                    IF input_object.rep = "list" THEN "int64" ELSE input_object.dtype,
                    self.array_dimensions, input_object.data))
    ELSE Raise("UDFIODefinitionError")

\* torch.reshape(obj, dims): only a tensor is accepted; any failure is wrapped.
PyTorchTensor_check_array_and_convert_shape(self, input_object) ==
    IF input_object.rep = "tensor"
       /\ Product(self.array_dimensions) = Len(input_object.data)
    THEN Return(Arr("tensor", input_object.dtype, self.array_dimensions, input_object.data))
    ELSE Raise("UDFIODefinitionError")

check_array_and_convert_shape(self, input_object) ==
    IF self.backend = "numpy"
    THEN NumpyArray_check_array_and_convert_shape(self, input_object)
    ELSE PyTorchTensor_check_array_and_convert_shape(self, input_object)

-----------------------------------------------------------------------------
(* Inputs the model enumerates. *)

Elems == {-129, 3, 200}

DataSeqs == UNION {[1..n -> Elems] : n \in 1..MaxData}

DTypeOf == [n \in ConcreteTypeNames |->
    CASE n = "INT8" -> "int8" [] n = "INT16" -> "int16" [] n = "INT32" -> "int32"
      [] n = "INT64" -> "int64" [] n = "FLOAT32" -> "float32" [] OTHER -> "float64"]

\* Array values in the three supported representations, and a Python scalar.
SupportedInputs ==
    {PyList(d) : d \in DataSeqs}
    \cup {Arr("ndarray", "int64", <<Len(d)>>, d) : d \in DataSeqs}
    \cup {Arr("tensor", "float32", <<Len(d)>>, d) : d \in DataSeqs}

UnsupportedInputs == {Arr("pyscalar", "pyint", <<>>, <<3>>), NoneObj}

DeclaredTypes ==
    {NdArrayType(n) : n \in ConcreteTypeNames} \cup {NdArrayType("ANYTYPE"), PyNone}

ArrayDescriptors ==
    {NumpyArray("x", FALSE, t, <<2>>) : t \in DeclaredTypes}
    \cup {PyTorchTensor("x", FALSE, t, <<2>>) : t \in DeclaredTypes}

-----------------------------------------------------------------------------
(* Specification of one descriptor's type coercion. *)

ArrIdle ==
    /\ arr_self = NoneObj
    /\ arr_input = NoneObj
    /\ arr_result = Return(NoneObj)
    /\ arr_pc = "off"

ArrInit ==
    /\ arr_self \in ArrayDescriptors
    /\ arr_input = NoneObj
    /\ arr_result = Return(NoneObj)
    /\ arr_pc = "ready"

ConvertType(obj) ==
    /\ arr_input' = obj
    /\ arr_result' = check_array_and_convert_type(arr_self, obj)
    /\ arr_pc' = "called"
    /\ UNCHANGED <<arr_self, dfVars, setupVars, fwdVars, cliVars>>

ArrNext == \E obj \in SupportedInputs \cup UnsupportedInputs : ConvertType(obj)

-----------------------------------------------------------------------------
(* PandasDataframe. *)

\* Most columns, column types or column shapes of a dataframe descriptor.
MaxColumns == 2

\* A dimension specification: a tuple of sizes, or Dimension.ANYDIM.
Dims(d) == [kind |-> "dims", dims |-> d]
ANYDIM == [kind |-> "ANYDIM", dims |-> <<>>]

SeqsUpTo(S, n) == UNION {[1..k -> S] : k \in 0..n}

\* [x] * n
Repeat(x, n) == [k \in 1..n |-> x]

UdfIOCatalogEntry(name, type, is_nullable, array_type, array_dimensions, is_input) ==
    [name |-> name, type |-> type, is_nullable |-> is_nullable,
     array_type |-> array_type, array_dimensions |-> array_dimensions,
     is_input |-> is_input]

\* __init__ stores its three arguments and checks nothing.
PandasDataframe_init(columns, column_types, column_shapes) ==
    [ok |-> TRUE, exc |-> "",
     self |-> [columns |-> columns, column_types |-> column_types,
               column_shapes |-> column_shapes]]

\* zip(a, b, c) stops at the shortest of the three.
Min3(a, b, c) == IF a <= b THEN (IF a <= c THEN a ELSE c) ELSE (IF b <= c THEN b ELSE c)

\* The same method with the length check left out.
generate_catalog_entries_unchecked(self, is_input) ==
    LET types == IF self.column_types = <<>>
                 THEN Repeat(NdArrayType("ANYTYPE"), Len(self.columns))
                 ELSE self.column_types
        shapes == IF self.column_shapes = <<>>
                  THEN Repeat(ANYDIM, Len(self.columns))
                  ELSE self.column_shapes
        self1 == [self EXCEPT !.column_types = types, !.column_shapes = shapes]
    IN [self |-> self1, ok |-> TRUE, exc |-> "",
        entries |-> [k \in 1..Min3(Len(self.columns), Len(types), Len(shapes)) |->
            UdfIOCatalogEntry(self.columns[k], ColumnType("NDARRAY"), FALSE,
                              types[k], shapes[k], is_input)]]

\* The same method with is_input left at its default.
generate_catalog_entries_default_input(self, is_input) ==
    LET r == generate_catalog_entries_unchecked(self, FALSE)
    IN IF Len(r.self.columns) # Len(r.self.column_types)
          \/ Len(r.self.columns) # Len(r.self.column_shapes)
       THEN [self |-> r.self, ok |-> FALSE, exc |-> "UDFIODefinitionError", entries |-> <<>>]
       ELSE r

\* generate_catalog_entries: fills in the defaults (assigning them to the
\* descriptor's own fields), checks the three lengths, and builds one entry
\* per column.  The result holds the descriptor's fields after the call.
generate_catalog_entries(self, is_input) ==
    LET types == IF self.column_types = <<>>
                 THEN Repeat(NdArrayType("ANYTYPE"), Len(self.columns))
                 ELSE self.column_types
        shapes == IF self.column_shapes = <<>>
                  THEN Repeat(ANYDIM, Len(self.columns))
                  ELSE self.column_shapes
        self1 == [self EXCEPT !.column_types = types, !.column_shapes = shapes]
    IN IF Len(self1.columns) # Len(self1.column_types)
          \/ Len(self1.columns) # Len(self1.column_shapes)
       THEN [self |-> self1, ok |-> FALSE, exc |-> "UDFIODefinitionError", entries |-> <<>>]
       ELSE [self |-> self1, ok |-> TRUE, exc |-> "",
             entries |-> [k \in 1..Min3(Len(self1.columns), Len(types), Len(shapes)) |->
                 UdfIOCatalogEntry(self1.columns[k], ColumnType("NDARRAY"), FALSE,
                                   types[k], shapes[k], is_input)]]

ColumnNames == {"a", "b"}
ColumnTypes == {NdArrayType("INT32"), NdArrayType("FLOAT32")}
ColumnShapes == {Dims(<<2>>), Dims(<<1, 2>>)}

NoDf == [columns |-> <<>>, column_types |-> <<>>, column_shapes |-> <<>>]
NoDfResult == [self |-> NoDf, ok |-> TRUE, exc |-> "", entries |-> <<>>]

DfIdle ==
    /\ df_pc = "off"
    /\ df_args = NoDf
    /\ df_init_result = [ok |-> TRUE, exc |-> "", self |-> NoDf]
    /\ df_self = NoDf
    /\ df_is_input = FALSE
    /\ df_result = NoDfResult

DfInit ==
    /\ df_pc = "none"
    /\ df_args = NoDf
    /\ df_init_result = [ok |-> TRUE, exc |-> "", self |-> NoDf]
    /\ df_self = NoDf
    /\ df_is_input = FALSE
    /\ df_result = NoDfResult

Construct(columns, column_types, column_shapes) ==
    /\ df_pc = "none"
    /\ df_args' = [columns |-> columns, column_types |-> column_types,
                   column_shapes |-> column_shapes]
    /\ df_init_result' = PandasDataframe_init(columns, column_types, column_shapes)
    /\ df_self' = df_init_result'.self
    /\ df_pc' = IF df_init_result'.ok THEN "constructed" ELSE "failed"
    /\ UNCHANGED <<df_is_input, df_result, arrVars, setupVars, fwdVars, cliVars>>

GenerateCatalogEntries(is_input) ==
    /\ df_pc \in {"constructed", "generated"}
    /\ df_is_input' = is_input
    /\ df_result' = generate_catalog_entries(df_self, is_input)
    /\ df_self' = df_result'.self
    /\ df_pc' = "generated"
    /\ UNCHANGED <<df_args, df_init_result, arrVars, setupVars, fwdVars, cliVars>>

DfNext ==
    \/ \E c \in SeqsUpTo(ColumnNames, MaxColumns),
          t \in SeqsUpTo(ColumnTypes, MaxColumns),
          s \in SeqsUpTo(ColumnShapes, MaxColumns) : Construct(c, t, s)
    \/ \E is_input \in BOOLEAN : GenerateCatalogEntries(is_input)

-----------------------------------------------------------------------------
(* The setup decorator. *)

\* Most positional arguments of a call of the wrapped setup function.
MaxSetupArgs == 2

SetupArgValues == {SelfObj, PyList(<<3>>)}
SetupKwargs == {<<>>, <<[key |-> "device", value |-> PyList(<<3>>)]>>}

\* The user's setup function.  "plain" returns None, as an initialiser
\* usually does; "reporting" returns its last positional argument (None when
\* it has none).
SetupFns == {"plain", "reporting"}

arg_fn_setup(fn, args, kwargs) ==
    IF fn = "reporting" /\ args # <<>> THEN args[Len(args)] ELSE NoneObj

\* setup(cachable, udf_type, batchable)(arg_fn): the tags of the wrapper.
setup_tags_of(cachable, udf_type, batchable) ==
    [cachable |-> cachable, udf_type |-> udf_type, batchable |-> batchable]

\* wrapper(*args, **kwargs): calls arg_fn(*args, **kwargs) and falls off its
\* end, so it returns None.
setup_wrapper(fn, args, kwargs) ==
    [invoked |-> <<[args |-> args, kwargs |-> kwargs]>>,
     fn_ret |-> arg_fn_setup(fn, args, kwargs),
     ret |-> NoneObj]

SetupIdle ==
    /\ setup_fn = "plain"
    /\ setup_tags = setup_tags_of(FALSE, "Abstract", TRUE)
    /\ setup_pc = "off"
    /\ setup_call = [args |-> <<>>, kwargs |-> <<>>]
    /\ setup_invoked = <<>>
    /\ setup_fn_ret = NoneObj
    /\ setup_ret = NoneObj

SetupInit ==
    /\ setup_fn \in SetupFns
    /\ \E c \in BOOLEAN, t \in {"Abstract", "Classification"}, b \in BOOLEAN :
          setup_tags = setup_tags_of(c, t, b)
    /\ setup_pc = "wrapped"
    /\ setup_call = [args |-> <<>>, kwargs |-> <<>>]
    /\ setup_invoked = <<>>
    /\ setup_fn_ret = NoneObj
    /\ setup_ret = NoneObj

SetupCall(args, kwargs) ==
    /\ setup_pc \in {"wrapped", "returned"}
    /\ setup_call' = [args |-> args, kwargs |-> kwargs]
    /\ LET r == setup_wrapper(setup_fn, args, kwargs)
       IN /\ setup_invoked' = r.invoked
          /\ setup_fn_ret' = r.fn_ret
          /\ setup_ret' = r.ret
    /\ setup_pc' = "returned"
    /\ UNCHANGED <<setup_fn, setup_tags, arrVars, dfVars, fwdVars, cliVars>>

SetupNext ==
    \E args \in SeqsUpTo(SetupArgValues, MaxSetupArgs), kwargs \in SetupKwargs :
        SetupCall(args, kwargs)

-----------------------------------------------------------------------------
(* The forward decorator. *)

\* Most descriptors in an input or output signature list.
MaxSigs == 2
\* Most positional arguments after the receiver in a call of the wrapper.
MaxArgs == 2

Workers == {"w1", "w2"}

\* IOArgument.validate_object(obj, is_input): the descriptor's type coercion
\* followed by its shape coercion; the first failure is the outcome.
validate_object(self, obj, is_input) ==
    LET t == check_array_and_convert_type(self, obj)
    IN IF ~t.ok THEN t ELSE check_array_and_convert_shape(self, t.val)

\* Row i (from 0) of an array along its first axis.
Row(v, i) ==
    LET n == Product(Tail(v.shape))
        d == SubSeq(v.data, i * n + 1, (i + 1) * n)
    IN IF Len(v.shape) = 1
       THEN (IF v.rep = "tensor" THEN Arr("tensor", v.dtype, <<>>, d)
             ELSE Arr("npscalar", v.dtype, <<>>, d))
       ELSE Arr(v.rep, v.dtype, Tail(v.shape), d)

\* obj[i] for a Python index i >= 0.
Index(obj, i) ==
    CASE obj.rep = "tuple" ->
           IF i < Len(obj.items) THEN Return(obj.items[i + 1]) ELSE Raise("IndexError")
      [] obj.rep = "list" ->
           IF i < Len(obj.data) THEN Return(Arr("pyscalar", "pyint", <<>>, <<obj.data[i + 1]>>))
           ELSE Raise("IndexError")
      [] obj.rep \in {"ndarray", "tensor"} ->
           IF obj.shape # <<>> /\ i < obj.shape[1] THEN Return(Row(obj, i))
           ELSE Raise("IndexError")
      [] obj.rep = "npscalar" -> Raise("IndexError")
      [] OTHER -> Raise("TypeError")

\* tuple(obj)
ToTuple(obj) ==
    CASE obj.rep = "tuple" -> Return(obj)
      [] obj.rep = "list" ->
           Return(PyTuple([k \in 1..Len(obj.data) |->
                              Arr("pyscalar", "pyint", <<>>, <<obj.data[k]>>)]))
      [] obj.rep \in {"ndarray", "tensor"} /\ obj.shape # <<>> ->
           Return(PyTuple([k \in 1..obj.shape[1] |-> Row(obj, k - 1)]))
      [] OTHER -> Raise("TypeError")

\* The user's forward function, arg_fn(*args).
\*   "tail"  : def forward(self, *xs): return xs
\*   "first" : def forward(self, x, *rest): return x
\*   "pad"   : def forward(self, *xs): return (*xs, [3, 200])
\* A call that supplies too few arguments raises TypeError.
ForwardFns == {"tail", "first", "pad"}

call_arg_fn(fn, args) ==
    CASE fn = "tail" ->
           IF Len(args) >= 1 THEN Return(PyTuple(Tail(args))) ELSE Raise("TypeError")
      [] fn = "first" ->
           IF Len(args) >= 2 THEN Return(args[2]) ELSE Raise("TypeError")
      [] OTHER ->
           IF Len(args) >= 1 THEN Return(PyTuple(Append(Tail(args), PyList(<<3, 200>>))))
           ELSE Raise("TypeError")

\* The frame of one call of the wrapper: its position, its locals, and a
\* record of what the call was given (call_args), the calls of arg_fn it made
\* (invoked), what arg_fn returned (fn_ret) and its outcome (result).
NoFrame ==
    [pc |-> "idle", call_args |-> <<>>, args |-> <<>>, args_lst |-> <<>>, i |-> 0,
     output |-> NoneObj, output_lst |-> <<>>, invoked |-> <<>>, fn_ret |-> NoneObj,
     result |-> Return(NoneObj)]

\* The frame when the call ends: its locals are gone.
Done(f, result) ==
    [f EXCEPT !.pc = "done", !.args = <<>>, !.args_lst = <<>>, !.i = 0,
              !.output = NoneObj, !.output_lst = <<>>, !.result = result]

\* Line 70: the position in args of the argument for descriptor i.
InputArgIndex_noReceiver(i) == i

InputArgIndex(i) == i + 1

\* Line 66: the loop runs once per input descriptor.
InputLoopContinues_zip(f) == f.i < Len(input_signatures) /\ f.i + 1 < Len(f.args)

InputLoopContinues(f) == f.i < Len(input_signatures)

\* Line 62: args_lst starts as a new empty list in every call.
NewArgsLst_shared(w) == (fw[CHOOSE o \in Workers : o # w]).args_lst

NewArgsLst(w) == <<>>

\* Line 96: the value the multi-descriptor branch hands back.
WrapperOutput_coerced(f) == Return(PyTuple(f.output_lst))

WrapperOutput(f) == ToTuple(f.output)

\* The whole wrapper as one function of its arguments: what a call returns
\* or raises when it runs from its first line to its last with nothing else
\* running.
RECURSIVE CoerceInputs(_, _, _)
CoerceInputs(args, i, args_lst) ==
    IF i < Len(input_signatures)
    THEN IF i + 1 >= Len(args)
         THEN [ok |-> FALSE, exc |-> "IndexError", lst |-> <<>>]
         ELSE LET v == validate_object(input_signatures[i + 1], args[i + 2], TRUE)
              IN IF v.ok
                 THEN CoerceInputs(args, i + 1, Append(args_lst, v.val))
                 ELSE [ok |-> FALSE, exc |-> "UDFIODefinitionError", lst |-> <<>>]
    ELSE [ok |-> TRUE, exc |-> "", lst |-> args_lst]

RECURSIVE CoerceOutputs(_, _)
CoerceOutputs(output, i) ==
    IF i < Len(output_signatures)
    THEN LET e == Index(output, i)
         IN IF ~e.ok
            THEN e
            ELSE IF validate_object(output_signatures[i + 1], e.val, FALSE).ok
                 THEN CoerceOutputs(output, i + 1)
                 ELSE Raise("UDFIODefinitionError")
    ELSE ToTuple(output)

wrapper(args) ==
    LET checked == check_input /\ Len(input_signatures) > 0
        a == IF checked
             THEN CoerceInputs(args, 0, IF Len(args) > 0 THEN <<args[1]>> ELSE <<>>)
             ELSE [ok |-> TRUE, exc |-> "", lst |-> args]
    IN IF ~a.ok
       THEN Raise(a.exc)
       ELSE LET r == call_arg_fn(arg_fn, IF Len(a.lst) > 0 THEN a.lst ELSE args)
            IN IF ~r.ok \/ ~check_output
               THEN r
               ELSE IF Len(output_signatures) = 1
                    THEN LET v == validate_object(output_signatures[1], r.val, FALSE)
                         IN IF v.ok THEN v ELSE Raise("UDFIODefinitionError")
                    ELSE CoerceOutputs(r.val, 0)

\* wrapper(*args) is entered.
Call(w, args) ==
    /\ fw[w].pc \in {"idle", "done"}
    /\ fw' = [fw EXCEPT ![w] = [NoFrame EXCEPT !.pc = "check_input",
                                               !.call_args = args, !.args = args]]
    /\ UNCHANGED <<fwdConf, arrVars, dfVars, setupVars, cliVars>>

\* Lines 60-64.
CheckInput(w) ==
    /\ fw[w].pc = "check_input"
    /\ LET f == fw[w] IN
       fw' = [fw EXCEPT ![w] =
          IF check_input /\ Len(input_signatures) > 0
          THEN [f EXCEPT !.pc = "input_loop", !.i = 0,
                         !.args_lst = IF Len(f.args) > 0
                                      THEN Append(NewArgsLst(w), f.args[1])
                                      ELSE NewArgsLst(w)]
          ELSE [f EXCEPT !.pc = "invoke"]]
    /\ UNCHANGED <<fwdConf, arrVars, dfVars, setupVars, cliVars>>

\* Lines 66-76: one iteration of the input loop, or its end.
InputLoop(w) ==
    /\ fw[w].pc = "input_loop"
    /\ LET f == fw[w] IN
       fw' = [fw EXCEPT ![w] =
          IF InputLoopContinues(f)
          THEN IF InputArgIndex(f.i) >= Len(f.args)
               THEN Done(f, Raise("IndexError"))
               ELSE LET v == validate_object(input_signatures[f.i + 1],
                                             f.args[InputArgIndex(f.i) + 1], TRUE)
                    IN IF v.ok
                       THEN [f EXCEPT !.args_lst = Append(@, v.val), !.i = @ + 1]
                       ELSE Done(f, Raise("UDFIODefinitionError"))
          ELSE [f EXCEPT !.pc = "invoke",
                         !.args = IF Len(f.args_lst) > 0 THEN f.args_lst ELSE @]]
    /\ UNCHANGED <<fwdConf, arrVars, dfVars, setupVars, cliVars>>

\* Line 79.
Invoke(w) ==
    /\ fw[w].pc = "invoke"
    /\ LET f == fw[w]
           r == call_arg_fn(arg_fn, f.args)
       IN fw' = [fw EXCEPT ![w] =
             IF r.ok
             THEN [f EXCEPT !.pc = "check_output", !.output = r.val, !.fn_ret = r.val,
                            !.invoked = Append(@, f.args)]
             ELSE [Done(f, r) EXCEPT !.invoked = Append(@, f.args)]]
    /\ UNCHANGED <<fwdConf, arrVars, dfVars, setupVars, cliVars>>

\* Lines 81-88 and 98.
CheckOutput(w) ==
    /\ fw[w].pc = "check_output"
    /\ LET f == fw[w] IN
       fw' = [fw EXCEPT ![w] =
          IF check_output
          THEN IF Len(output_signatures) = 1
               THEN LET v == validate_object(output_signatures[1], f.output, FALSE)
                    IN IF v.ok THEN Done(f, v) ELSE Done(f, Raise("UDFIODefinitionError"))
               ELSE [f EXCEPT !.pc = "output_loop", !.i = 0, !.output_lst = <<>>]
          ELSE Done(f, Return(f.output))]
    /\ UNCHANGED <<fwdConf, arrVars, dfVars, setupVars, cliVars>>

\* Lines 89-98: one iteration of the output loop, or its end and the return.
OutputLoop(w) ==
    /\ fw[w].pc = "output_loop"
    /\ LET f == fw[w] IN
       fw' = [fw EXCEPT ![w] =
          IF f.i < Len(output_signatures)
          THEN LET e == Index(f.output, f.i)
               IN IF ~e.ok
                  THEN Done(f, e)
                  ELSE LET v == validate_object(output_signatures[f.i + 1], e.val, FALSE)
                       IN IF v.ok
                          THEN [f EXCEPT !.output_lst = Append(@, v.val), !.i = @ + 1]
                          ELSE Done(f, Raise("UDFIODefinitionError"))
          ELSE Done(f, WrapperOutput(f))]
    /\ UNCHANGED <<fwdConf, arrVars, dfVars, setupVars, cliVars>>

ForwardDescriptors ==
    {NumpyArray("x", FALSE, NdArrayType("INT8"), <<2>>),
     PyTorchTensor("y", FALSE, NdArrayType("FLOAT32"), <<1, 2>>)}

ForwardValues == {PyList(<<3, 200>>), Arr("ndarray", "int64", <<1>>, <<-129>>)}

ForwardArgs ==
    {<<>>} \cup {<<SelfObj>> \o a : a \in SeqsUpTo(ForwardValues, MaxArgs)}

FwdIdle ==
    /\ input_signatures = <<>>
    /\ output_signatures = <<>>
    /\ check_input = TRUE
    /\ check_output = TRUE
    /\ arg_fn = "tail"
    /\ fwd_tags = [input |-> <<>>, output |-> <<>>]
    /\ fwd_wrapped = [tags |-> fwd_tags, input |-> <<>>, output |-> <<>>]
    /\ fw = [w \in Workers |-> NoFrame]

\* forward(input_signatures, output_signatures, check_input, check_output)
\* applied to arg_fn: the closure and the wrapper's tags.
FwdInit ==
    /\ input_signatures \in SeqsUpTo(ForwardDescriptors, MaxSigs)
    /\ output_signatures \in SeqsUpTo(ForwardDescriptors, MaxSigs)
    /\ check_input \in BOOLEAN
    /\ check_output \in BOOLEAN
    /\ arg_fn \in ForwardFns
    /\ fwd_tags = [input |-> input_signatures, output |-> output_signatures]
    /\ fwd_wrapped = [tags |-> fwd_tags, input |-> input_signatures,
                      output |-> output_signatures]
    /\ fw = [w \in Workers |-> NoFrame]

WorkerNext(w, argsets) ==
    \/ \E args \in argsets : Call(w, args)
    \/ CheckInput(w)
    \/ InputLoop(w)
    \/ Invoke(w)
    \/ CheckOutput(w)
    \/ OutputLoop(w)

\* One caller.
FwdNext == WorkerNext("w1", ForwardArgs)

\* Concurrent callers of one wrapped function, over a narrower range of
\* configurations and arguments.
MaxConcSigs == 2
MaxConcArgs == 1

ConcDescriptors == {NumpyArray("x", FALSE, NdArrayType("INT8"), <<2>>)}

ConcArgs ==
    {<<>>} \cup {<<SelfObj>> \o a : a \in SeqsUpTo(ForwardValues, MaxConcArgs)}

ConcInit ==
    /\ input_signatures \in SeqsUpTo(ConcDescriptors, MaxConcSigs)
    /\ output_signatures \in SeqsUpTo(ConcDescriptors, MaxConcSigs)
    /\ check_input \in BOOLEAN
    /\ check_output \in BOOLEAN
    /\ arg_fn \in ForwardFns
    /\ fwd_tags = [input |-> input_signatures, output |-> output_signatures]
    /\ fwd_wrapped = [tags |-> fwd_tags, input |-> input_signatures,
                      output |-> output_signatures]
    /\ fw = [w \in Workers |-> NoFrame]

ConcNext == \E w \in Workers : WorkerNext(w, ConcArgs)

-----------------------------------------------------------------------------
(* The command-line client.  A string is a sequence of one-character       *)
(* strings.                                                                *)

\* Most queries (each ended by ";") the user enters.
MaxQueries == 3
\* Most empty reads at the end of input the model follows.
MaxEofReads == 2

Whitespace == {" ", "\n"}

RECURSIVE lstrip(_)
lstrip(q) == IF q # <<>> /\ Head(q) \in Whitespace THEN lstrip(Tail(q)) ELSE q

RECURSIVE rstrip(_)
rstrip(q) ==
    IF q # <<>> /\ q[Len(q)] \in Whitespace THEN rstrip(SubSeq(q, 1, Len(q) - 1)) ELSE q

\* str.upper on one character, over the letters the input of the model uses.
UpperChar(c) ==
    CASE c = "e" -> "E" [] c = "x" -> "X" [] c = "i" -> "I" [] c = "t" -> "T"
      [] c = "q" -> "Q" [] c = "u" -> "U" [] c = "s" -> "S" [] OTHER -> c

upper(q) == [k \in 1..Len(q) |-> UpperChar(q[k])]

\* b"".join(input_buffer).decode()
RECURSIVE join(_)
join(chunks) == IF chunks = <<>> THEN <<>> ELSE Head(chunks) \o join(Tail(chunks))

EXIT == <<"E", "X", "I", "T">>
QUIT == <<"Q", "U", "I", "T">>

\* Line 83 with the test on the query as typed.
IsExitCommand_caseSensitive(query) == query \in {EXIT, QUIT}

\* Line 83.
IsExitCommand(query) == upper(query) \in {EXIT, QUIT}

\* Lines 58-73: the banner, the cursor and the two tasks.  The tasks are
\* created here and first run when the input loop waits for input.  (The
\* task of handle_server_response only prints responses.)
StartClient ==
    /\ cli_pc = "start"
    /\ cli_pc' = "read"
    /\ req_pc' = "get"
    /\ UNCHANGED <<cli_stdin, cli_pos, input_buffer, cli_message, c_request_queue,
                   executed, arrVars, dfVars, setupVars, fwdVars>>

\* Lines 39-44: one read(1) of read_line and what it does with the character.
\* At the end of input read(1) returns b"" at once, which is appended.
ReadChar ==
    /\ cli_pc = "read"
    /\ IF cli_pos < Len(cli_stdin)
       THEN LET input_char == cli_stdin[cli_pos + 1]
            IN /\ cli_pos' = cli_pos + 1
               /\ IF input_char = ";"
                  THEN /\ cli_message' = join(input_buffer)
                       /\ input_buffer' = <<>>
                       /\ cli_pc' = "got_line"
                  ELSE /\ input_buffer' = Append(input_buffer, <<input_char>>)
                       /\ UNCHANGED <<cli_message, cli_pc>>
       ELSE /\ Len(SelectSeq(input_buffer, LAMBDA c : c = <<>>)) < MaxEofReads
            /\ input_buffer' = Append(input_buffer, <<>>)
            /\ UNCHANGED <<cli_pos, cli_message, cli_pc>>
    /\ UNCHANGED <<cli_stdin, c_request_queue, req_pc, executed,
                   arrVars, dfVars, setupVars, fwdVars>>

\* Lines 79-87: strip the line, return on EXIT / QUIT, else queue it.  The
\* queue is unbounded, so put never waits.
ProcessLine ==
    /\ cli_pc = "got_line"
    /\ LET query == rstrip(lstrip(cli_message))
       IN IF IsExitCommand(query)
          THEN /\ cli_pc' = "returned"
               /\ UNCHANGED c_request_queue
          ELSE /\ c_request_queue' = Append(c_request_queue, query)
               /\ cli_pc' = "read"
    /\ UNCHANGED <<cli_stdin, cli_pos, input_buffer, cli_message, req_pc, executed,
                   arrVars, dfVars, setupVars, fwdVars>>

\* The input loop is suspended (so that another task may run) only while it
\* waits for a character the user has yet to enter, or once it has returned.
InputLoopSuspended ==
    \/ cli_pc = "read" /\ cli_pos < Len(cli_stdin)
    \/ cli_pc = "returned"

\* Lines 118-119: get returns the oldest request, which is passed to
\* cursor.execute_async.
GetAndExecute ==
    /\ req_pc = "get"
    /\ InputLoopSuspended
    /\ c_request_queue # <<>>
    /\ executed' = Append(executed, Head(c_request_queue))
    /\ c_request_queue' = Tail(c_request_queue)
    /\ req_pc' = "executing"
    /\ UNCHANGED <<cli_stdin, cli_pos, cli_pc, input_buffer, cli_message,
                   arrVars, dfVars, setupVars, fwdVars>>

\* Line 119: execute_async completes and the task loops.
ExecuteDone ==
    /\ req_pc = "executing"
    /\ InputLoopSuspended
    /\ req_pc' = "get"
    /\ UNCHANGED <<cli_stdin, cli_pos, cli_pc, input_buffer, cli_message,
                   c_request_queue, executed, arrVars, dfVars, setupVars, fwdVars>>

\* Line 108: the input listener is complete, start_cmd_client returns and
\* the remaining tasks run no more.
ClientReturns ==
    /\ cli_pc = "returned"
    /\ req_pc # "closed"
    /\ req_pc' = "closed"
    /\ UNCHANGED <<cli_stdin, cli_pos, cli_pc, input_buffer, cli_message,
                   c_request_queue, executed, arrVars, dfVars, setupVars, fwdVars>>

RawQueries ==
    {<<"s">>, <<" ", "s", "\n">>, <<"\n", "e", "X", "i", "t">>,
     <<"Q", "U", "I", "T", " ">>, <<"e", "x", "i", "t", "s">>, <<>>}

RECURSIVE Terminated(_)
Terminated(qs) ==
    IF qs = <<>> THEN <<>> ELSE Head(qs) \o <<";">> \o Terminated(Tail(qs))

\* What the user may enter: some queries, each ended by ";", and then
\* perhaps the start of another.
Streams ==
    {Terminated(qs) \o rest : qs \in SeqsUpTo(RawQueries, MaxQueries),
                              rest \in {<<>>, <<"s", " ">>}}

CliIdle ==
    /\ cli_stdin = <<>>
    /\ cli_pos = 0
    /\ cli_pc = "off"
    /\ input_buffer = <<>>
    /\ cli_message = <<>>
    /\ c_request_queue = <<>>
    /\ req_pc = "none"
    /\ executed = <<>>

CliInit ==
    /\ cli_stdin \in Streams
    /\ cli_pos = 0
    /\ cli_pc = "start"
    /\ input_buffer = <<>>
    /\ cli_message = <<>>
    /\ c_request_queue = <<>>
    /\ req_pc = "none"
    /\ executed = <<>>

CliNext ==
    \/ StartClient
    \/ ReadChar
    \/ ProcessLine
    \/ GetAndExecute
    \/ ExecuteDone
    \/ ClientReturns

-----------------------------------------------------------------------------
(* Specifications. *)

InitArray == ArrInit /\ DfIdle /\ SetupIdle /\ FwdIdle /\ CliIdle
SpecArray == InitArray /\ [][ArrNext]_vars

InitDataframe == DfInit /\ ArrIdle /\ SetupIdle /\ FwdIdle /\ CliIdle
SpecDataframe == InitDataframe /\ [][DfNext]_vars

InitSetup == SetupInit /\ ArrIdle /\ DfIdle /\ FwdIdle /\ CliIdle
SpecSetup == InitSetup /\ [][SetupNext]_vars

Init == FwdInit /\ ArrIdle /\ DfIdle /\ SetupIdle /\ CliIdle
Spec == Init /\ [][FwdNext]_vars

InitConcurrent == ConcInit /\ ArrIdle /\ DfIdle /\ SetupIdle /\ CliIdle
SpecConcurrent == InitConcurrent /\ [][ConcNext]_vars

InitClient == CliInit /\ ArrIdle /\ DfIdle /\ SetupIdle /\ FwdIdle
SpecClient == InitClient /\ [][CliNext]_vars

-----------------------------------------------------------------------------
(* The claims. *)

\* The single caller of Spec.
F1 == fw["w1"]

\* C1: with check_output and two or more output descriptors, when the
\* function returns a sequence of the same length whose elements all
\* validate, the wrapper returns the sequence of the coerced elements.
C1_CoercedOutputsReturned ==
    (/\ F1.pc = "done"
     /\ F1.invoked # <<>>
     /\ check_output
     /\ Len(output_signatures) >= 2
     /\ F1.fn_ret.rep = "tuple"
     /\ Len(F1.fn_ret.items) = Len(output_signatures)
     /\ \A k \in 1..Len(output_signatures) :
            validate_object(output_signatures[k], F1.fn_ret.items[k], FALSE).ok)
    => F1.result = Return(PyTuple([k \in 1..Len(output_signatures) |->
           validate_object(output_signatures[k], F1.fn_ret.items[k], FALSE).val]))

\* The case of C2: input checking with n >= 1 descriptors, and a call with a
\* receiver and exactly n further arguments.
C2_Case ==
    /\ F1.pc # "idle"
    /\ check_input
    /\ Len(input_signatures) >= 1
    /\ Len(F1.call_args) = Len(input_signatures) + 1

C2_Coerced(k) == validate_object(input_signatures[k], F1.call_args[k + 1], TRUE)

\* C2: in that case the function is invoked exactly once, with the receiver
\* as given followed by each argument coerced by the descriptor at its
\* position (and not at all when an argument fails its validation, the call
\* then raising UDFIODefinitionError).
C2_InvokedOnceWithCoercedArgs ==
    C2_Case =>
        IF \A k \in 1..Len(input_signatures) : C2_Coerced(k).ok
        THEN /\ F1.pc \in {"check_output", "output_loop", "done"}
                  => F1.invoked = <<(<<F1.call_args[1]>> \o
                         [k \in 1..Len(input_signatures) |-> C2_Coerced(k).val])>>
             /\ F1.pc \in {"check_input", "input_loop", "invoke"} => F1.invoked = <<>>
        ELSE /\ F1.invoked = <<>>
             /\ F1.pc = "done" => F1.result = Raise("UDFIODefinitionError")

C2_Witness ==
    /\ C2_Case
    /\ F1.pc = "done"
    /\ Len(input_signatures) = 2
    /\ input_signatures[1] # input_signatures[2]
    /\ Len(F1.invoked) = 1
    /\ F1.invoked[1] # F1.call_args
    /\ F1.invoked[1][1] = SelfObj

\* C3: a call of the setup wrapper invokes the original function exactly
\* once with the same positional and keyword arguments and returns what the
\* original function returned.
C3_SetupWrapperTransparent ==
    setup_pc = "returned" =>
        /\ setup_invoked = <<setup_call>>
        /\ setup_ret = setup_fn_ret

\* C4: for both backends and any input in a supported representation,
\* check_array_and_convert_type returns a value of the declared element type
\* exactly when that type is one of the six concrete types, and otherwise
\* raises UDFIODefinitionError.
C4_CoercesExactlyConcreteTypes ==
    (arr_pc = "called" /\ arr_input \in SupportedInputs) =>
        IF arr_self.array_type \in {NdArrayType(n) : n \in ConcreteTypeNames}
        THEN /\ arr_result.ok
             /\ arr_result.val.dtype = DTypeOf[arr_self.array_type.name]
        ELSE arr_result = Raise("UDFIODefinitionError")

\* The lengths of a dataframe descriptor's arguments disagree.
LengthMismatch(a) ==
    \/ a.column_types # <<>> /\ Len(a.column_types) # Len(a.columns)
    \/ a.column_shapes # <<>> /\ Len(a.column_shapes) # Len(a.columns)

\* C5 as stated: a descriptor whose lengths disagree is refused by its
\* constructor with UDFIODefinitionError.
C5_ConstructorRaises ==
    (df_pc # "none" /\ LengthMismatch(df_args)) =>
        (~df_init_result.ok /\ df_init_result.exc = "UDFIODefinitionError")

\* C5 as amended: the constructor accepts a descriptor whose lengths
\* disagree and stores the arguments as given; every later call of
\* generate_catalog_entries raises UDFIODefinitionError and yields no entry.
C5_GenerateRaises ==
    (df_pc # "none" /\ LengthMismatch(df_args)) =>
        /\ df_init_result.ok
        /\ df_init_result.self = df_args
        /\ df_pc = "generated" =>
              (~df_result.ok /\ df_result.exc = "UDFIODefinitionError"
               /\ df_result.entries = <<>>)

C5_Witness ==
    /\ df_pc = "generated"
    /\ df_args.columns = <<"a", "b">>
    /\ df_args.column_types = <<NdArrayType("INT32")>>
    /\ ~df_result.ok

\* C6: when column_types and column_shapes are each empty or as long as
\* columns, generate_catalog_entries(is_input) returns one entry per column,
\* in column order, with the column's name, type NDARRAY, is_nullable false,
\* the is_input passed, the column's element type (ANYTYPE when none were
\* given) and the column's dimensions (ANYDIM when none were given).
C6_OneEntryPerColumn ==
    (df_pc = "generated" /\ ~LengthMismatch(df_args)) =>
        /\ df_result.ok
        /\ Len(df_result.entries) = Len(df_args.columns)
        /\ \A k \in 1..Len(df_args.columns) :
              df_result.entries[k] =
                  [name |-> df_args.columns[k],
                   type |-> ColumnType("NDARRAY"),
                   is_nullable |-> FALSE,
                   array_type |-> IF df_args.column_types = <<>>
                                  THEN NdArrayType("ANYTYPE")
                                  ELSE df_args.column_types[k],
                   array_dimensions |-> IF df_args.column_shapes = <<>>
                                        THEN ANYDIM
                                        ELSE df_args.column_shapes[k],
                   is_input |-> df_is_input]

C6_Witness ==
    /\ df_pc = "generated"
    /\ df_args.columns = <<"a", "b">>
    /\ df_args.column_types = <<>>
    /\ Len(df_args.column_shapes) = 2
    /\ df_is_input
    /\ Len(df_result.entries) = 2

\* The case of C7: output checking with exactly two descriptors, and a
\* function that returned a 3-element sequence.
C7_Case ==
    /\ F1.pc = "done"
    /\ F1.invoked # <<>>
    /\ check_output
    /\ Len(output_signatures) = 2
    /\ F1.fn_ret.rep = "tuple"
    /\ Len(F1.fn_ret.items) = 3

\* C7 as stated: in that case the call raises an index-out-of-range error.
C7_RaisesIndexError ==
    C7_Case => (~F1.result.ok /\ F1.result.exc = "IndexError")

\* C7 as amended: in that case the call raises no index-out-of-range error;
\* only the first two elements are validated, and the call returns the
\* function's 3-element sequence when both validate and raises
\* UDFIODefinitionError when one does not.
C7_ReturnsThreeElements ==
    C7_Case =>
        /\ F1.result.exc # "IndexError"
        /\ IF \A k \in 1..2 :
                 validate_object(output_signatures[k], F1.fn_ret.items[k], FALSE).ok
           THEN F1.result = Return(F1.fn_ret)
           ELSE F1.result = Raise("UDFIODefinitionError")

C7_Witness ==
    /\ C7_Case
    /\ F1.result.ok
    /\ Len(F1.result.val.items) = 3

\* The case of C8: input checking with n >= 1 descriptors, and a call with
\* a receiver and fewer than n further arguments.
C8_Case ==
    /\ F1.pc # "idle"
    /\ check_input
    /\ Len(input_signatures) >= 1
    /\ Len(F1.call_args) >= 1
    /\ Len(F1.call_args) - 1 < Len(input_signatures)

C8_SuppliedValid ==
    \A k \in 1..(Len(F1.call_args) - 1) : C2_Coerced(k).ok

\* C8 as stated: in that case the call does not fail for the missing
\* arguments; the function is invoked with the receiver and the coerced
\* supplied arguments.
C8_SilentTruncation ==
    (C8_Case /\ C8_SuppliedValid /\ F1.pc = "done") =>
        F1.invoked = <<(<<F1.call_args[1]>> \o
            [k \in 1..(Len(F1.call_args) - 1) |-> C2_Coerced(k).val])>>

\* C8 as amended: in that case the function is never invoked and the call
\* fails: with IndexError, at the lookup of the first missing argument, when
\* every supplied argument validates, and with UDFIODefinitionError when one
\* does not.
C8_ArityFailure ==
    C8_Case =>
        /\ F1.invoked = <<>>
        /\ F1.pc \in {"check_input", "input_loop", "done"}
        /\ F1.pc = "done" =>
              F1.result = IF C8_SuppliedValid THEN Raise("IndexError")
                          ELSE Raise("UDFIODefinitionError")

C8_Witness ==
    /\ C8_Case
    /\ F1.pc = "done"
    /\ Len(F1.call_args) = 2
    /\ Len(input_signatures) = 2
    /\ F1.result = Raise("IndexError")

\* C9: whatever the interleaving of the workers' calls, a finished call has
\* the outcome the same call has when it runs alone, and the wrapper's tags
\* and the descriptor lists are as they were at wrap time.
C9_CallsIndependent ==
    /\ \A w \in Workers : fw[w].pc = "done" => fw[w].result = wrapper(fw[w].call_args)
    /\ fwd_tags = fwd_wrapped.tags
    /\ input_signatures = fwd_wrapped.input
    /\ output_signatures = fwd_wrapped.output

\* One worker has finished a call whose argument was coerced while the
\* other is in the middle of its input loop, one argument coerced.
C9_Witness ==
    /\ fw["w1"].pc = "done"
    /\ fw["w1"].result.ok
    /\ Len(fw["w1"].call_args) = 2
    /\ fw["w1"].invoked # <<fw["w1"].call_args>>
    /\ fw["w2"].pc = "input_loop"
    /\ Len(fw["w2"].args_lst) = 2

\* The queries the user entered: the pieces of the input that end in ";".
RECURSIVE EnteredQueries(_, _)
EnteredQueries(chars, current) ==
    IF chars = <<>> THEN <<>>
    ELSE IF Head(chars) = ";"
         THEN <<current>> \o EnteredQueries(Tail(chars), <<>>)
         ELSE EnteredQueries(Tail(chars), Append(current, Head(chars)))

EnteredExit(q) == upper(rstrip(lstrip(q))) \in {EXIT, QUIT}

\* The stripped queries entered before the first EXIT / QUIT.
RECURSIVE BeforeExit(_)
BeforeExit(qs) ==
    IF qs = <<>> \/ EnteredExit(Head(qs)) THEN <<>>
    ELSE <<rstrip(lstrip(Head(qs)))>> \o BeforeExit(Tail(qs))

IsPrefix(a, b) == Len(a) <= Len(b) /\ SubSeq(b, 1, Len(a)) = a

\* C10: at every point the queries passed to execute_async are a prefix of
\* the stripped queries entered before the first EXIT / QUIT, and none of
\* them is EXIT or QUIT in any letter case.
C10_ForwardedInOrder ==
    /\ IsPrefix(executed, BeforeExit(EnteredQueries(cli_stdin, <<>>)))
    /\ \A k \in 1..Len(executed) : ~EnteredExit(executed[k])

C10_Witness ==
    /\ Len(executed) = 2
    /\ executed[1] # executed[2]
    /\ cli_pc = "returned"
    /\ cli_pos < Len(cli_stdin)

=============================================================================
